---- MODULE Spec2Model ----
(***************************************************************************)
(* A model of src/main.cpp: a C++ program that drives the Objective-C      *)
(* runtime by hand to open one window and paint a procedurally generated   *)
(* gradient into it.                                                       *)
(*                                                                         *)
(* main.cpp holds two texts of the program (lines 1-279 and 281-555).      *)
(* They differ in one modelled respect: the second drawRect fetches the    *)
(* view bounds before it tests the buffer for emptiness.  `variant` picks  *)
(* the text.                                                               *)
(*                                                                         *)
(* The program has one thread.  main runs loadImageData to completion,     *)
(* configures the window, and blocks in the host's event loop; the host    *)
(* invokes drawRect and windowShouldClose from inside that loop.  The code *)
(* declares no lock, no timer and no frame index.                          *)
(***************************************************************************)
EXTENDS Integers, Sequences, FiniteSets, TLC

\* The image is 800 x 600 in the source (main.cpp:99-100); the model scales it
\* down.  The channel formulas below are exact for both sizes.
gImageWidth == 3
gImageHeight == 2
\* How many paint callbacks the host dispatches in one run.
MaxPaints == 2
\* How many times the operation-level harness calls loadImageData.
MaxFrames == 2

VARIABLES
    variant,        \* 1: main.cpp:1-279, 2: main.cpp:281-555
    hasScreen,      \* host: [NSScreen mainScreen] is non-nil
    registry,       \* host type registry: type name -> "absent" | "taken" | "allocated" | "registered"
    methods,        \* host: type name -> set of selectors bound to it
    instances,      \* host: type name -> number of objects of the type
    gImageData,     \* std::vector<uint32_t>, as a sequence
    loadPc,         \* loadImageData: "idle" | "resize" | "loop"
    loadX, loadY,   \* loadImageData's loop indices
    published,      \* history: the buffer at each return of loadImageData
    mainPc,         \* main's position (MainOrder), "crashed", "exited", or "harness"
    mainScreen,     \* "unset" | "screen" | "nil"
    cls,            \* type name -> "unset" | "Nil" | "Class": delegateClass / contentViewClass
    windowDelegate, \* "nil" | "delegate"
    contentView,    \* "none" | "default" | "custom" | "nil"
    windowShown,
    rtLog,          \* history: the object-model calls main made, in order
    nilUses,        \* history: calls main made on a missing (nil) handle
    exitCode,       \* "none" | "0" | "signal"
    cbPc,           \* the callback running on the UI thread, "idle" when none
    ctx,            \* drawRect's contextRef: "unset" | "valid" | "nil"
    imageRef,       \* drawRect's imageRef: "none" | "NULL" | "image"
    calls,          \* the host calls the current (or last) drawRect issued
    observed,       \* the samples the last blit read out of the buffer
    paints,         \* number of drawRect invocations so far
    entryEmpty,     \* the buffer was empty when the current (or last) drawRect began
    closeRequests,  \* window-close requests the host delivered
    handlerCalls    \* invocations of windowShouldClose

envVars == <<variant, hasScreen>>
hostVars == <<registry, methods, instances>>
imgVars == <<gImageData, loadPc, loadX, loadY, published>>
setupVars == <<mainScreen, cls, windowDelegate, contentView, windowShown, rtLog, nilUses>>
paintVars == <<ctx, imageRef, calls, observed, paints, entryEmpty>>
closeVars == <<closeRequests, handlerCalls>>
vars == <<envVars, hostVars, imgVars, setupVars, paintVars, closeVars, mainPc, exitCode, cbPc>>

Types == {"WindowDelegate", "ContentView"}

Selector == [WindowDelegate |-> "windowShouldClose:", ContentView |-> "drawRect:"]

----------------------------------------------------------------------------
(* loadImageData: the gradient *)

\* static_cast<uint8_t>((float)n / d * 255): for 0 <= n < d the float result
\* truncates to floor(255 n / d), which fits 8 bits.
Channel(n, d) == ((n * 255) \div d) % 256

\* A uint32_t sample is written as its four 8-bit fields, most significant
\* first: <<bits 31-24, bits 23-16, bits 15-8, bits 7-0>>.
Zero32 == <<0, 0, 0, 0>>

\* faulty variant: the alpha field is left out of the word
PackNoAlpha(a, r, g, b) == <<0, r % 256, g % 256, b % 256>>

\* (a << 24) | (r << 16) | (g << 8) | b, stored into a uint32_t; a, r, g and b
\* are uint8_t, so the four fields do not overlap
Pack(a, r, g, b) == <<a % 256, r % 256, g % 256, b % 256>>

\* faulty variant: the red channel moves with the number of frames produced
PixelValueAnimated(x, y) ==
    Pack(255, (Channel(x, gImageWidth) + Len(published)) % 256,
         Channel(y, gImageHeight), Channel(x + y, gImageWidth + gImageHeight))

PixelValue(x, y) ==
    Pack(255, Channel(x, gImageWidth), Channel(y, gImageHeight),
         Channel(x + y, gImageWidth + gImageHeight))

ResizeLen == gImageWidth * gImageHeight

\* The threads holding a lock on gImageData.  The globals are the vector and
\* its two dimensions: the program declares no mutex and acquires none.
LocksHeld == {}

\* std::vector::resize: keeps the leading elements, value-initialises new ones
Resize(s, n) == [k \in 1..n |-> IF k <= Len(s) THEN s[k] ELSE Zero32]

\* faulty variant: the emptiness test never succeeds
IsEmptyNever(buf) == FALSE

\* std::vector::empty
IsEmpty(buf) == Len(buf) = 0

----------------------------------------------------------------------------
(* main *)

\* faulty variant: the delegate type is registered before its method is added
MainOrderRegisterFirst ==
    << "start", "inLoad", "app", "screen", "frame", "window", "title",
       "dlgAllocate", "dlgRegister", "dlgAddMethod", "dlgInst", "setDelegate",
       "cvBounds",
       "cvAllocate", "cvAddMethod", "cvRegister", "cvInst", "setContentView",
       "needsDisplay", "show", "callRun", "run" >>

\* The statements of main in order, createWindowDelegateClass and
\* createContentViewClass inlined.  "run" is main blocked in [application run].
MainOrder ==
    << "start", "inLoad", "app", "screen", "frame", "window", "title",
       "dlgAllocate", "dlgAddMethod", "dlgRegister", "dlgInst", "setDelegate",
       "cvBounds",
       "cvAllocate", "cvAddMethod", "cvRegister", "cvInst", "setContentView",
       "needsDisplay", "show", "callRun", "run" >>

PosOf(pc) == CHOOSE i \in 1..Len(MainOrder) : MainOrder[i] = pc

After(pc) == MainOrder[PosOf(pc) + 1]

AllocPc == [WindowDelegate |-> "dlgAllocate", ContentView |-> "cvAllocate"]
AddPc == [WindowDelegate |-> "dlgAddMethod", ContentView |-> "cvAddMethod"]
RegPc == [WindowDelegate |-> "dlgRegister", ContentView |-> "cvRegister"]
InstPc == [WindowDelegate |-> "dlgInst", ContentView |-> "cvInst"]

Logged(op, t) == Append(rtLog, [op |-> op, type |-> t, cls |-> cls[t]])

----------------------------------------------------------------------------
(* The state after static construction, before main's first statement *)

InitCommon ==
    /\ variant \in {1, 2}
    /\ gImageData = << >>
    /\ loadPc = "idle"
    /\ loadX = 0
    /\ loadY = 0
    /\ published = << >>
    /\ methods = [t \in Types |-> {}]
    /\ instances = [t \in Types |-> 0]
    /\ mainScreen = "unset"
    /\ cls = [t \in Types |-> "unset"]
    /\ windowDelegate = "nil"
    /\ contentView = "none"
    /\ windowShown = FALSE
    /\ rtLog = << >>
    /\ nilUses = 0
    /\ exitCode = "none"
    /\ cbPc = "idle"
    /\ ctx = "unset"
    /\ imageRef = "none"
    /\ calls = << >>
    /\ observed = << >>
    /\ paints = 0
    /\ entryEmpty = FALSE
    /\ closeRequests = 0
    /\ handlerCalls = 0

\* The program: the host may lack a primary screen, and either type name may
\* already be registered by someone else in the process.
Init ==
    /\ InitCommon
    /\ hasScreen \in BOOLEAN
    /\ registry \in [Types -> {"absent", "taken"}]
    /\ mainPc = "start"

\* The operations on their own: a caller invokes loadImageData and drawRect
\* one after another, in any order, starting from the same constructed state.
InitOps ==
    /\ InitCommon
    /\ hasScreen = TRUE
    /\ registry = [t \in Types |-> "absent"]
    /\ mainPc = "harness"

----------------------------------------------------------------------------
(* loadImageData, main.cpp:103-117 / 365-379 *)

LoadResize ==
    /\ loadPc = "resize"
    /\ gImageData' = Resize(gImageData, ResizeLen)
    /\ loadX' = 0
    /\ loadY' = 0
    /\ loadPc' = "loop"
    /\ UNCHANGED <<envVars, hostVars, setupVars, paintVars, closeVars,
                   published, mainPc, exitCode, cbPc>>

\* one iteration of the inner loop body, with the loop increments
LoadWrite ==
    /\ loadPc = "loop"
    /\ loadY < gImageHeight
    /\ gImageData' = [gImageData EXCEPT ![loadY * gImageWidth + loadX + 1] =
                          PixelValue(loadX, loadY)]
    /\ IF loadX + 1 < gImageWidth
         THEN loadX' = loadX + 1 /\ loadY' = loadY
         ELSE loadX' = 0 /\ loadY' = loadY + 1
    /\ UNCHANGED <<envVars, hostVars, setupVars, paintVars, closeVars,
                   published, loadPc, mainPc, exitCode, cbPc>>

\* the outer loop ends and loadImageData returns to its caller
LoadReturn ==
    /\ loadPc = "loop"
    /\ loadY >= gImageHeight
    /\ loadPc' = "idle"
    /\ published' = Append(published, gImageData)
    /\ mainPc' = IF mainPc = "inLoad" THEN After("inLoad") ELSE mainPc
    /\ UNCHANGED <<envVars, hostVars, setupVars, paintVars, closeVars,
                   gImageData, loadX, loadY, exitCode, cbPc>>

\* a direct call of loadImageData (operation-level specification only)
CallLoadImageData ==
    /\ mainPc = "harness"
    /\ loadPc = "idle"
    /\ cbPc = "idle"
    /\ Len(published) < MaxFrames
    /\ loadPc' = "resize"
    /\ UNCHANGED <<envVars, hostVars, setupVars, paintVars, closeVars,
                   gImageData, loadX, loadY, published, mainPc, exitCode, cbPc>>

----------------------------------------------------------------------------
(* main, main.cpp:211-279 / 465-555 *)

\* loadImageData();
MainCallLoad ==
    /\ mainPc = "start"
    /\ mainPc' = After("start")
    /\ loadPc' = "resize"
    /\ UNCHANGED <<envVars, hostVars, setupVars, paintVars, closeVars,
                   gImageData, loadX, loadY, published, exitCode, cbPc>>

\* Host calls whose effect no claim reads: sharedApplication and
\* setActivationPolicy:, setTitle:, contentView and bounds, setNeedsDisplay:.
MainConfig ==
    /\ mainPc \in {"app", "title", "cvBounds", "needsDisplay"}
    /\ mainPc' = After(mainPc)
    /\ UNCHANGED <<envVars, hostVars, imgVars, setupVars, paintVars, closeVars,
                   exitCode, cbPc>>

\* id mainScreen = [NSScreen mainScreen];  nil when the host has no screen
MainScreen ==
    /\ mainPc = "screen"
    /\ mainScreen' = IF hasScreen THEN "screen" ELSE "nil"
    /\ mainPc' = After(mainPc)
    /\ UNCHANGED <<envVars, hostVars, imgVars, paintVars, closeVars,
                   cls, windowDelegate, contentView, windowShown, rtLog, nilUses,
                   exitCode, cbPc>>

\* NSRect screenFrame = [mainScreen frame];  sent whatever mainScreen is
MainFrame ==
    /\ mainPc = "frame"
    /\ nilUses' = IF mainScreen = "nil" THEN nilUses + 1 ELSE nilUses
    /\ mainPc' = After(mainPc)
    /\ UNCHANGED <<envVars, hostVars, imgVars, paintVars, closeVars,
                   mainScreen, cls, windowDelegate, contentView, windowShown, rtLog,
                   exitCode, cbPc>>

\* [[NSWindow alloc] initWithContentRect:...]: the window has its default content view
MainWindow ==
    /\ mainPc = "window"
    /\ contentView' = "default"
    /\ mainPc' = After(mainPc)
    /\ UNCHANGED <<envVars, hostVars, imgVars, paintVars, closeVars,
                   mainScreen, cls, windowDelegate, windowShown, rtLog, nilUses,
                   exitCode, cbPc>>

\* objc_allocateClassPair(base, name, 0): Nil when the name is in use
AllocateClassPair(t) ==
    /\ mainPc = AllocPc[t]
    /\ IF registry[t] = "absent"
         THEN /\ registry' = [registry EXCEPT ![t] = "allocated"]
              /\ cls' = [cls EXCEPT ![t] = "Class"]
         ELSE /\ registry' = registry
              /\ cls' = [cls EXCEPT ![t] = "Nil"]
    /\ rtLog' = Append(rtLog, [op |-> "allocate", type |-> t, cls |-> cls'[t]])
    /\ mainPc' = After(mainPc)
    /\ UNCHANGED <<envVars, imgVars, paintVars, closeVars, methods, instances,
                   mainScreen, windowDelegate, contentView, windowShown, nilUses,
                   exitCode, cbPc>>

\* class_addMethod(cls, sel, imp, types): called unconditionally; binds
\* nothing and returns NO when cls is Nil
AddMethod(t) ==
    /\ mainPc = AddPc[t]
    /\ IF cls[t] = "Class"
         THEN methods' = [methods EXCEPT ![t] = @ \cup {Selector[t]}] /\ nilUses' = nilUses
         ELSE methods' = methods /\ nilUses' = nilUses + 1
    /\ rtLog' = Logged("addMethod", t)
    /\ mainPc' = After(mainPc)
    /\ UNCHANGED <<envVars, imgVars, paintVars, closeVars, registry, instances,
                   mainScreen, cls, windowDelegate, contentView, windowShown,
                   exitCode, cbPc>>

\* objc_registerClassPair(cls): called unconditionally.  On Nil the runtime
\* dereferences the handle: the process dies on a signal, or the call returns.
RegisterClassPair(t) ==
    /\ mainPc = RegPc[t]
    /\ rtLog' = Logged("register", t)
    /\ IF cls[t] = "Class"
         THEN /\ registry' = [registry EXCEPT ![t] = "registered"]
              /\ nilUses' = nilUses
              /\ mainPc' = After(mainPc)
              /\ exitCode' = exitCode
         ELSE /\ registry' = registry
              /\ nilUses' = nilUses + 1
              /\ \/ mainPc' = After(mainPc) /\ exitCode' = exitCode
                 \/ mainPc' = "crashed" /\ exitCode' = "signal"
    /\ UNCHANGED <<envVars, imgVars, paintVars, closeVars, methods, instances,
                   mainScreen, cls, windowDelegate, contentView, windowShown, cbPc>>

\* [[cls alloc] init...]: a message to Nil returns nil, no object is made
Instantiate(t) ==
    /\ mainPc = InstPc[t]
    /\ IF cls[t] = "Class"
         THEN instances' = [instances EXCEPT ![t] = @ + 1] /\ nilUses' = nilUses
         ELSE instances' = instances /\ nilUses' = nilUses + 1
    /\ rtLog' = Logged("instantiate", t)
    /\ mainPc' = After(mainPc)
    /\ UNCHANGED <<envVars, imgVars, paintVars, closeVars, registry, methods,
                   mainScreen, cls, windowDelegate, contentView, windowShown,
                   exitCode, cbPc>>

\* [window setDelegate:delegate]
MainSetDelegate ==
    /\ mainPc = "setDelegate"
    /\ windowDelegate' = IF instances["WindowDelegate"] > 0 THEN "delegate" ELSE "nil"
    /\ mainPc' = After(mainPc)
    /\ UNCHANGED <<envVars, hostVars, imgVars, paintVars, closeVars,
                   mainScreen, cls, contentView, windowShown, rtLog, nilUses,
                   exitCode, cbPc>>

\* [window setContentView:newContentView]
MainSetContentView ==
    /\ mainPc = "setContentView"
    /\ contentView' = IF instances["ContentView"] > 0 THEN "custom" ELSE "nil"
    /\ mainPc' = After(mainPc)
    /\ UNCHANGED <<envVars, hostVars, imgVars, paintVars, closeVars,
                   mainScreen, cls, windowDelegate, windowShown, rtLog, nilUses,
                   exitCode, cbPc>>

\* [window makeKeyAndOrderFront:nil]
MainShow ==
    /\ mainPc = "show"
    /\ windowShown' = TRUE
    /\ mainPc' = After(mainPc)
    /\ UNCHANGED <<envVars, hostVars, imgVars, paintVars, closeVars,
                   mainScreen, cls, windowDelegate, contentView, rtLog, nilUses,
                   exitCode, cbPc>>

\* [application run]: main blocks in the event loop.  Nothing in the program
\* stops the loop, so the `return 0` after it is never reached.
MainRun ==
    /\ mainPc = "callRun"
    /\ mainPc' = After(mainPc)
    /\ UNCHANGED <<envVars, hostVars, imgVars, setupVars, paintVars, closeVars,
                   exitCode, cbPc>>

----------------------------------------------------------------------------
(* drawRect, main.cpp:128-187 / 389-451 *)

PaintPcs == {"drEmpty", "drBounds", "drContext", "drColorSpace", "drSave", "drFlip",
             "drProvider", "drImage", "drDraw", "drRelease", "drRestore"}

\* From CGDataProviderCreateWithData until CGDataProviderRelease the provider
\* points into gImageData's storage: the host may read the samples.
BufferAccessPcs == {"drImage", "drDraw", "drRelease"}

\* The calls that take the drawing context, and the ones that build the image.
ContextOps == {"CGContextSaveGState", "CGContextTranslateCTM", "CGContextScaleCTM",
               "CGContextDrawImage", "CGContextRestoreGState"}
DrawingOps == ContextOps \cup {"CGColorSpaceCreateDeviceRGB",
               "CGDataProviderCreateWithData", "CGImageCreate", "CGImageRelease",
               "CGDataProviderRelease", "CGColorSpaceRelease"}

Call(op, c) == [op |-> op, ctx |-> c]

\* faulty variant: drawRect may be entered at any time, as from another thread
PaintEnabledAnytime == mainPc # "exited" /\ mainPc # "crashed"

\* When drawRect can be entered: called directly, or dispatched by the host
\* from the event loop main blocks in, to the view main installed.
PaintEnabled ==
    \/ mainPc = "harness" /\ loadPc = "idle"
    \/ /\ mainPc = "run"
       /\ windowShown
       /\ contentView = "custom"
       /\ Selector["ContentView"] \in methods["ContentView"]

DrawRectEnter ==
    /\ cbPc = "idle"
    /\ PaintEnabled
    /\ paints < MaxPaints
    /\ paints' = paints + 1
    /\ calls' = << >>
    /\ ctx' = "unset"
    /\ imageRef' = "none"
    /\ entryEmpty' = (Len(gImageData) = 0)
    /\ cbPc' = IF variant = 1 THEN "drEmpty" ELSE "drBounds"
    /\ UNCHANGED <<envVars, hostVars, imgVars, setupVars, closeVars, observed,
                   mainPc, exitCode>>

\* if (gImageData.empty()) return;
DrawRectEmptyCheck ==
    /\ cbPc = "drEmpty"
    /\ cbPc' = IF IsEmpty(gImageData) THEN "idle"
               ELSE IF variant = 1 THEN "drBounds" ELSE "drContext"
    /\ UNCHANGED <<envVars, hostVars, imgVars, setupVars, paintVars, closeVars,
                   mainPc, exitCode>>

\* NSRect bounds = [self bounds];
DrawRectBounds ==
    /\ cbPc = "drBounds"
    /\ calls' = Append(calls, Call("bounds", "-"))
    /\ cbPc' = IF variant = 1 THEN "drContext" ELSE "drEmpty"
    /\ UNCHANGED <<envVars, hostVars, imgVars, setupVars, closeVars,
                   ctx, imageRef, observed, paints, entryEmpty, mainPc, exitCode>>

\* [[NSGraphicsContext currentContext] CGContext]: nil when the host has no
\* current context; contextRef is not tested
DrawRectContext ==
    /\ cbPc = "drContext"
    /\ ctx' \in {"valid", "nil"}
    /\ cbPc' = "drColorSpace"
    /\ UNCHANGED <<envVars, hostVars, imgVars, setupVars, closeVars,
                   imageRef, calls, observed, paints, entryEmpty, mainPc, exitCode>>

DrawRectColorSpace ==
    /\ cbPc = "drColorSpace"
    /\ calls' = Append(calls, Call("CGColorSpaceCreateDeviceRGB", "-"))
    /\ cbPc' = "drSave"
    /\ UNCHANGED <<envVars, hostVars, imgVars, setupVars, closeVars,
                   ctx, imageRef, observed, paints, entryEmpty, mainPc, exitCode>>

DrawRectSaveGState ==
    /\ cbPc = "drSave"
    /\ calls' = Append(calls, Call("CGContextSaveGState", ctx))
    /\ cbPc' = "drFlip"
    /\ UNCHANGED <<envVars, hostVars, imgVars, setupVars, closeVars,
                   ctx, imageRef, observed, paints, entryEmpty, mainPc, exitCode>>

\* translate by the bounds height, then scale y by -1
DrawRectFlip ==
    /\ cbPc = "drFlip"
    /\ calls' = calls \o << Call("CGContextTranslateCTM", ctx),
                            Call("CGContextScaleCTM", ctx) >>
    /\ cbPc' = "drProvider"
    /\ UNCHANGED <<envVars, hostVars, imgVars, setupVars, closeVars,
                   ctx, imageRef, observed, paints, entryEmpty, mainPc, exitCode>>

\* CGDataProviderCreateWithData(nullptr, gImageData.data(), w * h * 4, nullptr)
DrawRectProvider ==
    /\ cbPc = "drProvider"
    /\ calls' = Append(calls, Call("CGDataProviderCreateWithData", "-"))
    /\ cbPc' = "drImage"
    /\ UNCHANGED <<envVars, hostVars, imgVars, setupVars, closeVars,
                   ctx, imageRef, observed, paints, entryEmpty, mainPc, exitCode>>

\* CGImageCreate(...): the host returns an image or NULL
DrawRectImageCreate ==
    /\ cbPc = "drImage"
    /\ calls' = Append(calls, Call("CGImageCreate", "-"))
    /\ imageRef' \in {"image", "NULL"}
    /\ cbPc' = "drDraw"
    /\ UNCHANGED <<envVars, hostVars, imgVars, setupVars, closeVars,
                   ctx, observed, paints, entryEmpty, mainPc, exitCode>>

\* if (imageRef) { CGContextDrawImage(contextRef, imageRect, imageRef);
\*                 CGImageRelease(imageRef); }
\* With a context the blit reads the samples through the provider.
DrawRectDrawImage ==
    /\ cbPc = "drDraw"
    /\ IF imageRef = "image"
         THEN /\ calls' = calls \o << Call("CGContextDrawImage", ctx),
                                      Call("CGImageRelease", "-") >>
              /\ observed' = IF ctx = "valid" THEN gImageData ELSE observed
         ELSE /\ calls' = calls
              /\ observed' = observed
    /\ cbPc' = "drRelease"
    /\ UNCHANGED <<envVars, hostVars, imgVars, setupVars, closeVars,
                   ctx, imageRef, paints, entryEmpty, mainPc, exitCode>>

\* faulty variant: the color space is never released
DrawRectReleaseLeaksColorSpace ==
    /\ cbPc = "drRelease"
    /\ calls' = Append(calls, Call("CGDataProviderRelease", "-"))
    /\ cbPc' = "drRestore"
    /\ UNCHANGED <<envVars, hostVars, imgVars, setupVars, closeVars,
                   ctx, imageRef, observed, paints, entryEmpty, mainPc, exitCode>>

\* CGDataProviderRelease(provider); CGColorSpaceRelease(colorSpace);
DrawRectRelease ==
    /\ cbPc = "drRelease"
    /\ calls' = calls \o << Call("CGDataProviderRelease", "-"),
                            Call("CGColorSpaceRelease", "-") >>
    /\ cbPc' = "drRestore"
    /\ UNCHANGED <<envVars, hostVars, imgVars, setupVars, closeVars,
                   ctx, imageRef, observed, paints, entryEmpty, mainPc, exitCode>>

\* CGContextRestoreGState(contextRef); and drawRect returns
DrawRectRestoreGState ==
    /\ cbPc = "drRestore"
    /\ calls' = Append(calls, Call("CGContextRestoreGState", ctx))
    /\ cbPc' = "idle"
    /\ UNCHANGED <<envVars, hostVars, imgVars, setupVars, closeVars,
                   ctx, imageRef, observed, paints, entryEmpty, mainPc, exitCode>>

----------------------------------------------------------------------------
(* The image format, main.cpp:114 and 160-174 *)

\* The program builds only for macOS (README.md:12), whose targets store a
\* uint32_t least significant byte first.
HostByteOrder == "little"

\* the four bytes of one sample in memory, in address order
MemoryBytes(s) ==
    LET b0 == s[4]
        b1 == s[3]
        b2 == s[2]
        b3 == s[1]
    IN  IF HostByteOrder = "little" THEN <<b0, b1, b2, b3>> ELSE <<b3, b2, b1, b0>>

\* CGBitmapInfo bitmapInfo = kCGImageAlphaFirst | kCGBitmapByteOrder32Big;
bitmapInfo == [alpha |-> "First", order |-> "32Big"]

\* What the host reads out of one 4-byte pixel under a bitmap info: the byte
\* order says how the bytes form a 32-bit word, the alpha info where alpha sits
\* in that word.
DecodedChannels(info, bytes) ==
    LET w == IF info.order = "32Big" THEN bytes ELSE <<bytes[4], bytes[3], bytes[2], bytes[1]>>
    IN  IF info.alpha = "First"
          THEN [a |-> w[1], r |-> w[2], g |-> w[3], b |-> w[4]]
          ELSE [r |-> w[1], g |-> w[2], b |-> w[3], a |-> w[4]]

\* the channels loadImageData packed into a sample
PackedChannels(s) ==
    [a |-> s[1], r |-> s[2], g |-> s[3], b |-> s[4]]

----------------------------------------------------------------------------
(* windowShouldClose, main.cpp:120-125 / 382-386, and the host's close request *)

\* The user closes the window.  The host asks the window's delegate through
\* windowShouldClose: when the delegate implements it; with no delegate the
\* window closes and the application keeps running.
HostCloseRequest ==
    /\ mainPc = "run"
    /\ cbPc = "idle"
    /\ windowShown
    /\ closeRequests' = closeRequests + 1
    /\ IF windowDelegate = "delegate" /\ Selector["WindowDelegate"] \in methods["WindowDelegate"]
         THEN /\ cbPc' = "wscTerminate"
              /\ handlerCalls' = handlerCalls + 1
              /\ windowShown' = windowShown
         ELSE /\ cbPc' = cbPc
              /\ handlerCalls' = handlerCalls
              /\ windowShown' = FALSE
    /\ UNCHANGED <<envVars, hostVars, imgVars, paintVars,
                   mainScreen, cls, windowDelegate, contentView, rtLog, nilUses,
                   mainPc, exitCode>>

\* faulty variant: the handler returns YES without terminating the application
AfterCloseHandlerNoTerminate == "run"

\* [application terminate:nil] ends the process through exit(0) and does not
\* return; the `return YES` after it is not reached.
AfterCloseHandler == "exited"

WindowShouldClose ==
    /\ cbPc = "wscTerminate"
    /\ cbPc' = "idle"
    /\ mainPc' = AfterCloseHandler
    /\ exitCode' = IF AfterCloseHandler = "exited" THEN "0" ELSE exitCode
    /\ UNCHANGED <<envVars, hostVars, imgVars, setupVars, paintVars, closeVars>>

----------------------------------------------------------------------------

DrawRect ==
    \/ DrawRectEnter
    \/ DrawRectEmptyCheck
    \/ DrawRectBounds
    \/ DrawRectContext
    \/ DrawRectColorSpace
    \/ DrawRectSaveGState
    \/ DrawRectFlip
    \/ DrawRectProvider
    \/ DrawRectImageCreate
    \/ DrawRectDrawImage
    \/ DrawRectRelease
    \/ DrawRectRestoreGState

LoadImageData == LoadResize \/ LoadWrite \/ LoadReturn

Main ==
    \/ MainCallLoad
    \/ MainConfig
    \/ MainScreen
    \/ MainFrame
    \/ MainWindow
    \/ \E t \in Types : AllocateClassPair(t)
    \/ \E t \in Types : AddMethod(t)
    \/ \E t \in Types : RegisterClassPair(t)
    \/ \E t \in Types : Instantiate(t)
    \/ MainSetDelegate
    \/ MainSetContentView
    \/ MainShow
    \/ MainRun

\* the program
Next == Main \/ LoadImageData \/ DrawRect \/ HostCloseRequest \/ WindowShouldClose

Spec == Init /\ [][Next]_vars

\* The UI thread runs a callback it has entered to its end.
FairSpec == Spec /\ WF_vars(WindowShouldClose)

\* the operations called directly
NextOps == CallLoadImageData \/ LoadImageData \/ DrawRect

SpecOps == InitOps /\ [][NextOps]_vars

----------------------------------------------------------------------------
(* Properties *)

Frames == {published[i] : i \in 1..Len(published)}

FrameLen == gImageWidth * gImageHeight

\* C1: whenever the host may read the buffer through drawRect's data provider,
\* and in what a blit has read, the samples are exactly one frame that
\* loadImageData has finished: width*height samples, none of them pending.
C1_PaintSeesWholeFrame ==
    /\ cbPc \in BufferAccessPcs =>
          /\ Len(gImageData) = FrameLen
          /\ gImageData \in Frames
    /\ observed # << >> =>
          /\ Len(observed) = FrameLen
          /\ observed \in Frames

\* a blit has read the buffer under a valid context after the frame was published
C1_Witness ==
    /\ cbPc = "drRelease"
    /\ ctx = "valid"
    /\ imageRef = "image"
    /\ observed \in Frames

C3_EmptyPaintIsNoOp ==
    entryEmpty =>
        /\ cbPc \in {"idle", "drEmpty", "drBounds"}
        /\ \A i \in 1..Len(calls) : calls[i].op \notin DrawingOps

\* the second program text has returned from a paint of the empty buffer,
\* having sent only the bounds message
C3_Witness ==
    /\ entryEmpty
    /\ paints > 0
    /\ cbPc = "idle"
    /\ variant = 2
    /\ Len(calls) = 1
    /\ Len(gImageData) = 0

\* the samples loadImageData has written so far
WrittenIdx ==
    IF loadPc = "loop" /\ Len(published) = 0
      THEN 1..(loadY * gImageWidth + loadX)
      ELSE IF Len(published) > 0 THEN 1..Len(gImageData) ELSE {}

\* C4: the buffer is empty or holds width*height samples, every sample the
\* producer has written has alpha 255, and so has every frame it returned.
C4_SizeAndAlpha ==
    /\ Len(gImageData) \in {0, FrameLen}
    /\ \A k \in WrittenIdx : gImageData[k][1] = 255
    /\ \A f \in Frames : Len(f) = FrameLen /\ \A k \in 1..Len(f) : f[k][1] = 255

\* the producer is part-way through its second frame
C4_Witness ==
    /\ Len(published) = 1
    /\ loadPc = "loop"
    /\ loadY = 1
    /\ Len(gImageData) = FrameLen

\* C5 as stated: for every pixel of an image drawRect has created, the
\* channels the host decodes from the sample's bytes in memory under the
\* declared bitmap info are the channels loadImageData packed.
C5_FormatMatchesLayout ==
    (imageRef = "image" /\ cbPc \in BufferAccessPcs) =>
        \A k \in 1..Len(gImageData) :
            DecodedChannels(bitmapInfo, MemoryBytes(gImageData[k]))
                = PackedChannels(gImageData[k])

SetupFailed == mainScreen = "nil" \/ \E t \in Types : cls[t] = "Nil"

\* C7 as stated: after a failed setup step the program makes no call on the
\* missing handle, shows no window and never enters the event loop.
C7_AbortsOnSetupFailure ==
    SetupFailed => /\ nilUses = 0
                   /\ ~windowShown
                   /\ mainPc # "run"

\* C8 as stated: with no drawing context, drawRect issues no call against it.
C8_NoCallOnMissingContext ==
    ctx = "nil" => \A i \in 1..Len(calls) : calls[i].ctx # "nil"

\* positions in the log of main's calls of one kind on one type
Idx(op, t) == {i \in 1..Len(rtLog) : rtLog[i].op = op /\ rtLog[i].type = t}

\* C9: each type is defined at most once and exactly once by the time the
\* event loop runs; its method is bound before the type is finalized and never
\* after; it is instantiated only after it was finalized.
C9_TypeLifecycleOrder ==
    \A t \in Types :
        /\ Cardinality(Idx("allocate", t)) <= 1
        /\ mainPc \in {"run", "exited"} => Cardinality(Idx("allocate", t)) = 1
        /\ \A j \in Idx("register", t) :
               /\ \E i \in Idx("addMethod", t) : i < j
               /\ \E i \in Idx("allocate", t) : i < j
        /\ \A i \in Idx("addMethod", t) : \A j \in Idx("register", t) : i < j
        /\ \A i \in Idx("instantiate", t) : \E j \in Idx("register", t) : j < i
        /\ instances[t] > 0 => registry[t] = "registered" /\ Selector[t] \in methods[t]

\* both types are finalized and instantiated and the event loop runs
C9_Witness ==
    /\ mainPc = "run"
    /\ \A t \in Types : instances[t] = 1 /\ registry[t] = "registered"

\* C10: with the delegate attached, every close request the event loop
\* delivers enters windowShouldClose; once the handler has been entered no
\* paint callback starts, and the process ends with exit code 0.
C10_CloseTerminates ==
    /\ [][(closeRequests' # closeRequests /\ windowDelegate = "delegate")
             => (handlerCalls' = handlerCalls + 1 /\ cbPc' = "wscTerminate")]_vars
    /\ [][handlerCalls > 0 => (paints' = paints /\ cbPc' \notin PaintPcs)]_vars
    /\ (handlerCalls > 0 ~> (mainPc = "exited" /\ exitCode = "0"))

\* the process has exited through the close handler after painting
C10_Witness ==
    /\ mainPc = "exited"
    /\ exitCode = "0"
    /\ handlerCalls = 1
    /\ closeRequests = 1
    /\ paints > 0

\* positions in the current paint's log of the calls of one kind
CallIdx(op) == {i \in 1..Len(calls) : calls[i].op = op}

\* every call of `release` follows a call of `acquire` of its own, and there
\* are never more releases than acquisitions
ReleasedAfterAcquired(acquire, release) ==
    /\ Cardinality(CallIdx(release)) <= Cardinality(CallIdx(acquire))
    /\ \A j \in CallIdx(release) : \E i \in CallIdx(acquire) : i < j

\* `acquire` and `release` were each called the same number of times, at most once
BalancedOnce(acquire, release) ==
    /\ Cardinality(CallIdx(acquire)) <= 1
    /\ Cardinality(CallIdx(release)) = Cardinality(CallIdx(acquire))

\* C11: nothing is released or restored before it was created or saved, and
\* when drawRect has returned the graphics state was restored exactly once if
\* it was saved and not at all otherwise; the color space and the data
\* provider were each released exactly once if created; the image was released
\* exactly once if CGImageCreate returned one and not at all if it returned
\* NULL; a paint of the empty buffer acquired and released nothing.
C11_PaintBalanced ==
    /\ ReleasedAfterAcquired("CGContextSaveGState", "CGContextRestoreGState")
    /\ ReleasedAfterAcquired("CGColorSpaceCreateDeviceRGB", "CGColorSpaceRelease")
    /\ ReleasedAfterAcquired("CGDataProviderCreateWithData", "CGDataProviderRelease")
    /\ ReleasedAfterAcquired("CGImageCreate", "CGImageRelease")
    /\ (cbPc \notin PaintPcs /\ paints > 0) =>
          /\ BalancedOnce("CGContextSaveGState", "CGContextRestoreGState")
          /\ BalancedOnce("CGColorSpaceCreateDeviceRGB", "CGColorSpaceRelease")
          /\ BalancedOnce("CGDataProviderCreateWithData", "CGDataProviderRelease")
          /\ Cardinality(CallIdx("CGImageCreate")) <= 1
          /\ Cardinality(CallIdx("CGImageRelease")) = IF imageRef = "image" THEN 1 ELSE 0
          /\ entryEmpty => \A i \in 1..Len(calls) : calls[i].op \notin DrawingOps

\* drawRect has returned from a paint in which image creation failed: the
\* state was saved and restored and no image was released
C11_Witness ==
    /\ cbPc = "idle"
    /\ paints > 0
    /\ imageRef = "NULL"
    /\ Cardinality(CallIdx("CGImageCreate")) = 1
    /\ Cardinality(CallIdx("CGContextRestoreGState")) = 1
    /\ Cardinality(CallIdx("CGColorSpaceRelease")) = 1

====
